---- MODULE Spec2Model ----
(***************************************************************************)
(* Donation tracker (src/src/App.tsx): the polling refresh cycle of App,   *)
(* the aggregation done on every render (sorted, total, pct) and the       *)
(* count-up animator useCountUp.                                           *)
(*                                                                         *)
(* Three specifications share the variables:                               *)
(*   Spec / LiveSpec  App's polling effect and fetchDonations              *)
(*   SpecAgg          the render-time aggregation over all short lists     *)
(*   SpecAnim         the AnimatedTotal component running useCountUp       *)
(* A donation is modelled by its name and amount; timestamp and receiptUrl *)
(* are carried untouched by every operation modelled here.                 *)
(***************************************************************************)
EXTENDS Integers, Sequences, FiniteSets, TLC

VARIABLES
    url,        \* CONFIG.APPS_SCRIPT_URL, fixed at build time
    phase,      \* App's polling effect: "rendered" (effect not yet run), "active", "unmounted"
    donations,  \* useState<Donation[]>([])
    loading,    \* useState<boolean>(true)
    error,      \* useState<string | null>(null)
    view,       \* what the last render derived from donations: sorted, total, pct
    inflight,   \* fetchDonations calls suspended at an await, in order of issue
    untilTick,  \* milliseconds until the interval timer fires next
    lastEvent,  \* the handler that ran last and the response it saw
    animOn,     \* AnimatedTotal is mounted
    amount,     \* AnimatedTotal's prop, the target of useCountUp
    value,      \* useCountUp: useState<number>(0)
    rafRef,     \* useCountUp: rafRef.current, 0 standing for null
    pending,    \* frame callbacks requested and neither fired nor cancelled
    nextId,     \* the handle the next requestAnimationFrame returns
    run,        \* how many times useCountUp's effect has run
    lastFrame   \* the step callback that fired last: its run and its elapsed time

pollVars == <<url, phase, donations, loading, error, view, inflight, untilTick, lastEvent>>
animVars == <<animOn, amount, value, rafRef, pending, nextId, run, lastFrame>>
vars == <<url, phase, donations, loading, error, view, inflight, untilTick, lastEvent,
          animOn, amount, value, rafRef, pending, nextId, run, lastFrame>>

---------------------------------------------------------------------------
(* Bounds of the model *)

MaxInflight == 2
MaxLen == 3
TimerSteps == 2
MaxFrames == 6
MaxRuns == 3

---------------------------------------------------------------------------
(* CONFIG and DEMO *)

DONATION_GOAL == 15000000
REFRESH_MS == 30000
APPS_SCRIPT_URL == "https://script.google.com/macros/s/.../exec"
SENTINEL_URL == "YOUR_APPS_SCRIPT_URL"
ErrorText == "Could not load donation data. Will retry automatically."
NoError == "null"

Donation(n, a) == [name |-> n, amount |-> a]

DEMO ==
    << Donation("Ahmad Fauzi", 1000000),
       Donation("Siti Rahayu", 500000),
       Donation("Budi Santoso", 250000),
       Donation("Anonymous", 150000),
       Donation("Dewi Lestari", 750000) >>

isDemo == url = SENTINEL_URL

---------------------------------------------------------------------------
(* Aggregation: lines 237-239, evaluated on every render *)

RECURSIVE InsertDesc(_, _)
\* x goes behind every element that does not compare after it under
\* (a, b) => b.amount - a.amount: Array.prototype.sort is stable.
InsertDesc(x, s) ==
    IF s = <<>> THEN <<x>>
    ELSE IF Head(s).amount >= x.amount
         THEN <<Head(s)>> \o InsertDesc(x, Tail(s))
         ELSE <<x>> \o s

RECURSIVE SortFrom(_, _)
SortFrom(acc, rest) ==
    IF rest = <<>> THEN acc
    ELSE SortFrom(InsertDesc(Head(rest), acc), Tail(rest))

RECURSIVE InsertBeforeTies(_, _)
InsertBeforeTies(x, s) ==
    IF s = <<>> THEN <<x>>
    ELSE IF Head(s).amount > x.amount
         THEN <<Head(s)>> \o InsertBeforeTies(x, Tail(s))
         ELSE <<x>> \o s

RECURSIVE SortFromUnstable(_, _)
SortFromUnstable(acc, rest) ==
    IF rest = <<>> THEN acc
    ELSE SortFromUnstable(InsertBeforeTies(Head(rest), acc), Tail(rest))

\* a sort that puts a later record before an earlier one of the same amount
SortDescUnstable(list) == SortFromUnstable(<<>>, list)

\* [...donations].sort((a, b) => b.amount - a.amount)
SortDesc(list) == SortFrom(<<>>, list)

RECURSIVE SumAmounts(_)
\* sorted.reduce((s, d) => s + d.amount, 0)
SumAmounts(s) == IF s = <<>> THEN 0 ELSE Head(s).amount + SumAmounts(Tail(s))

\* The totals below the goal at which the double (total / goal) * 100 falls
\* just under k + 0.5 although the exact quotient is k + 0.5; at every other
\* total in 0 .. goal the double expression rounds as the exact quotient does.
RoundsBelowTie == {2175000, 4275000, 8475000, 8625000}

\* Math.round(x) for x = n / d >= 0: the nearest integer, ties upwards
RoundHalfUp(n, d) == (n \div d) + (IF 2 * (n % d) >= d THEN 1 ELSE 0)

\* Math.round((total / goal) * 100), with total = q * goal + r
RoundPct(total) ==
    LET q == total \div DONATION_GOAL
        r == total % DONATION_GOAL
        exact == 100 * q + RoundHalfUp(100 * r, DONATION_GOAL)
    IN IF total \in RoundsBelowTie THEN exact - 1 ELSE exact

Min(a, b) == IF a <= b THEN a ELSE b

\* the percentage without the clamp
PctUnclamped(total) == RoundPct(total)

\* Math.min(100, Math.round((total / CONFIG.DONATION_GOAL) * 100))
Pct(total) == Min(100, RoundPct(total))

Aggregate(list) ==
    LET sorted == SortDesc(list)
        total == SumAmounts(sorted)
    IN [sorted |-> sorted, total |-> total, pct |-> Pct(total)]

Render(list) == Aggregate(list)

---------------------------------------------------------------------------
(* Responses of the endpoint *)

\* kind "invalid": res.json() rejects; kind "null": the body parses to null;
\* kind "object": the body parses to an object, with or without donations.
Body(k, ok, has, list) ==
    [kind |-> k, success |-> ok, hasDonations |-> has, donations |-> list]

NoBody == Body("none", FALSE, FALSE, <<>>)

ListA == << Donation("Anonymous", 75000), Donation("Ahmad Fauzi", 2175000),
            Donation("Siti Rahayu", 75000) >>
ListB == << Donation("Dewi Lestari", 15000000), Donation("Anonymous", 7500000) >>

Bodies ==
    { Body("invalid", FALSE, FALSE, <<>>),
      Body("null", FALSE, FALSE, <<>>),
      Body("object", TRUE, TRUE, ListA),
      Body("object", TRUE, TRUE, ListB),
      Body("object", TRUE, TRUE, <<>>),
      Body("object", FALSE, TRUE, ListA),
      Body("object", FALSE, FALSE, <<>>) }

\* data.donations ?? []
DonationsOf(body) == IF body.hasDonations THEN body.donations ELSE <<>>

Event(k, body, late) == [kind |-> k, body |-> body, overtaken |-> late]

Request(st, late) == [stage |-> st, overtaken |-> late]

\* inflight without its i-th request; the requests issued before it have
\* now been overtaken by a later one
Without(q, i) ==
    [j \in 1..(Len(q) - 1) |->
        IF j < i THEN Request(q[j].stage, TRUE) ELSE q[j + 1]]

Max(a, b) == IF a >= b THEN a ELSE b

TimerQuantum == Max(1, REFRESH_MS \div TimerSteps)

---------------------------------------------------------------------------
(* App: state after the first render, before any effect has run *)

NoFrame == [run |-> 0, age |-> 0]

Init ==
    /\ url \in {APPS_SCRIPT_URL, SENTINEL_URL}
    /\ phase = "rendered"
    /\ donations = <<>>
    /\ loading = TRUE
    /\ error = NoError
    /\ view = Render(<<>>)
    /\ inflight = <<>>
    /\ untilTick = 0
    /\ lastEvent = Event("none", NoBody, FALSE)
    /\ animOn = FALSE
    /\ amount = 0
    /\ value = 0
    /\ rafRef = 0
    /\ pending = {}
    /\ nextId = 1
    /\ run = 0
    /\ lastFrame = NoFrame

---------------------------------------------------------------------------
(* fetchDonations, lines 212-229 *)

\* the catch block and the finally block, with a failure that wipes the list
ApplyFailureWipes ==
    /\ donations' = <<>>
    /\ error' = ErrorText
    /\ loading' = FALSE
    /\ view' = Render(donations')

\* the catch block and the finally block (lines 224-228), then the re-render
ApplyFailure ==
    /\ error' = ErrorText
    /\ loading' = FALSE
    /\ donations' = donations
    /\ view' = Render(donations')

\* a success path that appends the response to the list it already holds
ApplySuccessMerges(body) ==
    /\ donations' = donations \o DonationsOf(body)
    /\ error' = NoError
    /\ loading' = FALSE
    /\ view' = Render(donations')

\* a success path that treats success = false as a failure
ApplySuccessChecksFlag(body) ==
    IF body.success
    THEN /\ donations' = DonationsOf(body)
         /\ error' = NoError
         /\ loading' = FALSE
         /\ view' = Render(donations')
    ELSE ApplyFailure

\* lines 222-223 and the finally block, then the re-render
ApplySuccess(body) ==
    /\ donations' = DonationsOf(body)
    /\ error' = NoError
    /\ loading' = FALSE
    /\ view' = Render(donations')

\* what follows `await res.json()`: a rejected parse and a null body (whose
\* .donations throws a TypeError) both land in the catch block
ApplyBody(body) ==
    IF body.kind = "object" THEN ApplySuccess(body) ELSE ApplyFailure

\* a demo branch that still goes to the network
CallFetchDonationsAlwaysFetches ==
    /\ inflight' = Append(inflight, Request("fetch", FALSE))
    /\ UNCHANGED <<donations, loading, error, view>>

\* a call of fetchDonations up to its first suspension: the demo branch
\* (lines 213-217) runs to the end, the other suspends at `await fetch(...)`
CallFetchDonations ==
    IF isDemo
    THEN /\ donations' = DEMO
         /\ loading' = FALSE
         /\ view' = Render(donations')
         /\ UNCHANGED <<error, inflight>>
    ELSE /\ inflight' = Append(inflight, Request("fetch", FALSE))
         /\ UNCHANGED <<donations, loading, error, view>>

\* fetch(...) rejects: network failure
FetchRejects(i) ==
    /\ i \in 1..Len(inflight)
    /\ inflight[i].stage = "fetch"
    /\ ApplyFailure
    /\ inflight' = Without(inflight, i)
    /\ lastEvent' = Event("failure", Body("rejected", FALSE, FALSE, <<>>),
                          inflight[i].overtaken)
    /\ UNCHANGED <<url, phase, untilTick>>
    /\ UNCHANGED animVars

\* fetch(...) resolves with a response whose status is not OK: line 220 throws
FetchNotOk(i) ==
    /\ i \in 1..Len(inflight)
    /\ inflight[i].stage = "fetch"
    /\ ApplyFailure
    /\ inflight' = Without(inflight, i)
    /\ lastEvent' = Event("failure", Body("status", FALSE, FALSE, <<>>),
                          inflight[i].overtaken)
    /\ UNCHANGED <<url, phase, untilTick>>
    /\ UNCHANGED animVars

\* fetch(...) resolves with an OK response: the call suspends at `await res.json()`
FetchOk(i) ==
    /\ i \in 1..Len(inflight)
    /\ inflight[i].stage = "fetch"
    /\ inflight' = [inflight EXCEPT ![i] = Request("json", inflight[i].overtaken)]
    /\ UNCHANGED <<url, phase, donations, loading, error, view, untilTick, lastEvent>>
    /\ UNCHANGED animVars

\* res.json() settles with `body`
JsonSettles(i, body) ==
    /\ i \in 1..Len(inflight)
    /\ inflight[i].stage = "json"
    /\ ApplyBody(body)
    /\ inflight' = Without(inflight, i)
    /\ lastEvent' = Event(IF error' = NoError THEN "success" ELSE "failure",
                          body, inflight[i].overtaken)
    /\ UNCHANGED <<url, phase, untilTick>>
    /\ UNCHANGED animVars

---------------------------------------------------------------------------
(* The polling effect, lines 231-235 *)

\* an interval that doubles while an error is shown
NextDelayBacksOff == IF error = NoError THEN REFRESH_MS ELSE 2 * REFRESH_MS

\* setInterval(fetchDonations, CONFIG.REFRESH_MS): the delay to the next tick
NextDelay == REFRESH_MS

\* the effect body: fetchDonations(), then setInterval
Activate ==
    /\ phase = "rendered"
    /\ phase' = "active"
    /\ CallFetchDonations
    /\ untilTick' = NextDelay
    /\ lastEvent' = Event("fetch", NoBody, FALSE)
    /\ UNCHANGED url
    /\ UNCHANGED animVars

\* time passes while the interval is armed
TimePasses ==
    /\ phase = "active"
    /\ untilTick > 0
    /\ untilTick' = Max(0, untilTick - TimerQuantum)
    /\ UNCHANGED <<url, phase, donations, loading, error, view, inflight, lastEvent>>
    /\ UNCHANGED animVars

\* the interval fires: fetchDonations is called again. The code has no guard
\* on outstanding requests; the model holds at most MaxInflight of them, so a
\* tick waits there until one settles.
Tick ==
    /\ phase = "active"
    /\ untilTick = 0
    /\ isDemo \/ Len(inflight) < MaxInflight
    /\ CallFetchDonations
    /\ untilTick' = NextDelay
    /\ lastEvent' = Event("fetch", NoBody, FALSE)
    /\ UNCHANGED <<url, phase>>
    /\ UNCHANGED animVars

\* the effect's cleanup: clearInterval(timer)
Deactivate ==
    /\ phase = "active"
    /\ phase' = "unmounted"
    /\ lastEvent' = Event("stop", NoBody, FALSE)
    /\ UNCHANGED <<url, donations, loading, error, view, inflight, untilTick>>
    /\ UNCHANGED animVars

Settle ==
    \E i \in 1..MaxInflight + 1 :
        \/ FetchRejects(i)
        \/ FetchNotOk(i)
        \/ FetchOk(i)
        \/ \E body \in Bodies : JsonSettles(i, body)

Next ==
    \/ Activate
    \/ TimePasses
    \/ Tick
    \/ Deactivate
    \/ \E i \in 1..MaxInflight + 1 : FetchRejects(i)
    \/ \E i \in 1..MaxInflight + 1 : FetchNotOk(i)
    \/ \E i \in 1..MaxInflight + 1 : FetchOk(i)
    \/ \E i \in 1..MaxInflight + 1, body \in Bodies : JsonSettles(i, body)

Spec == Init /\ [][Next]_vars

\* The interval timer keeps firing while armed, time passes, and every
\* request the browser has sent settles.
LiveSpec ==
    /\ Init
    /\ [][Next]_vars
    /\ WF_vars(Tick)
    /\ WF_vars(TimePasses)
    /\ WF_vars(Settle)

---------------------------------------------------------------------------
(* The aggregation over every list of at most MaxLen donations: one fetch, *)
(* issued on activation, whose response carries any such list              *)

Names == {"Ahmad Fauzi", "Anonymous"}
Amounts == {0, 75000, 2175000, 15000000}
Records == {Donation(n, a) : n \in Names, a \in Amounts}
AllLists == UNION {[1..n -> Records] : n \in 0..MaxLen}

InitAgg == Init /\ url = APPS_SCRIPT_URL

NextAgg ==
    \/ Activate
    \/ FetchOk(1)
    \/ \E list \in AllLists : JsonSettles(1, Body("object", TRUE, TRUE, list))

SpecAgg == InitAgg /\ [][NextAgg]_vars

---------------------------------------------------------------------------
(* useCountUp, lines 78-97, inside AnimatedTotal (lines 113-116) *)

duration == 1800

\* The display clock is sampled every FrameMs: the longest period that
\* divides the duration into at most MaxFrames frames.
FramesPerRun ==
    CHOOSE n \in 1..Max(1, MaxFrames) :
        /\ duration % n = 0
        /\ \A m \in 1..Max(1, MaxFrames) : duration % m = 0 => m <= n
FrameMs == duration \div FramesPerRun
MaxAge == duration + FrameMs

Targets == {0, 1000000, 2650000}

RECURSIVE GCD(_, _)
GCD(a, b) == IF b = 0 THEN a ELSE GCD(b, a % b)

Pow4(x) == x * x * x * x

\* elapsed time with the clamp left out
ElapsedUnclamped(age) == age

\* p = Math.min((now - start) / duration, 1), as the numerator over duration
Elapsed(age) == Min(age, duration)

\* Math.round(eased * target) with eased = 1 - Math.pow(1 - p, 4): with
\* p = n / d in lowest terms, target * (d^4 - (d - n)^4) / d^4, rounded
EasedValue(target, age) ==
    LET g == GCD(Elapsed(age), duration)
        n == Elapsed(age) \div g
        d == duration \div g
        den == Pow4(d)
        num == den - Pow4(d - n)
    IN (target \div den) * num + RoundHalfUp((target % den) * num, den)

\* p < 1
Unfinished(age) == Elapsed(age) < duration

Callback(id, r, target, age, ready) ==
    [id |-> id, run |-> r, target |-> target, age |-> age, ready |-> ready]

\* a cleanup that cancels nothing
AfterCleanupKeeps == pending

\* the effect's cleanup, lines 91-93: cancelAnimationFrame(rafRef.current)
AfterCleanup ==
    IF rafRef # 0 THEN {cb \in pending : cb.id # rafRef} ELSE pending

\* the effect body, lines 83-90, run on the frames left by the cleanup
StartRun(left, target) ==
    /\ run' = run + 1
    /\ pending' = left \cup {Callback(nextId, run + 1, target, 0, TRUE)}
    /\ rafRef' = nextId
    /\ nextId' = nextId + 1

\* AnimatedTotal is first rendered (loading has become false) with amount t
Mount(t) ==
    /\ ~animOn
    /\ run = 0
    /\ animOn' = TRUE
    /\ amount' = t
    /\ value' = 0
    /\ StartRun(pending, t)
    /\ UNCHANGED lastFrame
    /\ UNCHANGED pollVars

\* AnimatedTotal is rendered with another amount: cleanup, then the effect
Retarget(t) ==
    /\ animOn
    /\ t # amount
    /\ run < MaxRuns
    /\ amount' = t
    /\ StartRun(AfterCleanup, t)
    /\ UNCHANGED <<animOn, value, lastFrame>>
    /\ UNCHANGED pollVars

\* AnimatedTotal is unmounted: cleanup
Unmount ==
    /\ animOn
    /\ animOn' = FALSE
    /\ pending' = AfterCleanup
    /\ UNCHANGED <<amount, value, rafRef, nextId, run, lastFrame>>
    /\ UNCHANGED pollVars

\* the display moves on to its next frame
FramePasses ==
    /\ \E cb \in pending : ~cb.ready \/ cb.age < MaxAge
    /\ pending' = {Callback(cb.id, cb.run, cb.target,
                             Min(cb.age + FrameMs, MaxAge), TRUE) : cb \in pending}
    /\ UNCHANGED <<animOn, amount, value, rafRef, nextId, run, lastFrame>>
    /\ UNCHANGED pollVars

\* the frame callback `step`, lines 84-89
Step(cb) ==
    /\ cb \in pending
    /\ cb.ready
    /\ value' = EasedValue(cb.target, cb.age)
    /\ lastFrame' = [run |-> cb.run, age |-> cb.age]
    /\ IF Unfinished(cb.age)
       THEN /\ pending' = (pending \ {cb})
                             \cup {Callback(nextId, cb.run, cb.target, cb.age, FALSE)}
            /\ rafRef' = nextId
            /\ nextId' = nextId + 1
       ELSE /\ pending' = pending \ {cb}
            /\ UNCHANGED <<rafRef, nextId>>
    /\ UNCHANGED <<animOn, amount, run>>
    /\ UNCHANGED pollVars

NextAnim ==
    \/ \E t \in Targets : Mount(t)
    \/ \E t \in Targets : Retarget(t)
    \/ Unmount
    \/ FramePasses
    \/ \E cb \in pending : Step(cb)

SpecAnim == Init /\ [][NextAnim]_vars

---------------------------------------------------------------------------
(* Vocabulary of the properties *)

\* a step in which a suspended fetchDonations call ran to its end
Settled == Len(inflight') < Len(inflight)
FailureStep == Settled /\ lastEvent'.kind = "failure"
SuccessStep == Settled /\ lastEvent'.kind = "success"
FetchIssued == isDemo \/ Len(inflight') = Len(inflight) + 1

Injections(n) == {f \in [1..n -> 1..n] : \A i, j \in 1..n : f[i] = f[j] => i = j}

\* s is list rearranged, descending by amount, equal amounts in list's order
IsStableDescPerm(s, list) ==
    /\ Len(s) = Len(list)
    /\ \E f \in Injections(Len(list)) :
          /\ \A i \in 1..Len(s) : s[i] = list[f[i]]
          /\ \A i, j \in 1..Len(s) :
                i < j => \/ s[i].amount > s[j].amount
                         \/ s[i].amount = s[j].amount /\ f[i] < f[j]

RECURSIVE SumUpTo(_, _)
SumUpTo(list, n) == IF n = 0 THEN 0 ELSE SumUpTo(list, n - 1) + list[n].amount

Abs(x) == IF x < 0 THEN -x ELSE x

---------------------------------------------------------------------------
(* C1: a failed fetch (network failure, non-OK status, unparsable body),   *)
(* whatever came before it, leaves the donation list and what is derived   *)
(* from it as they were, sets the error to the fixed text and leaves       *)
(* loading false.                                                          *)
C1_FailureKeepsList ==
    [][FailureStep =>
          /\ donations' = donations
          /\ view' = view
          /\ error' = ErrorText
          /\ loading' = FALSE]_vars

\* a failure has been applied on top of a list an earlier success delivered
C1_Witness ==
    /\ lastEvent.kind = "failure"
    /\ lastEvent.body.kind = "invalid"
    /\ donations = ListA
    /\ view.total = 2325000
    /\ error = ErrorText
    /\ ~loading

(* C2: after the polling effect is cleaned up, the fetcher is not invoked  *)
(* again and a fetch still outstanding changes neither the donation list,  *)
(* nor the error, nor the loading flag when it resolves.                   *)
C2_NothingAfterDeactivation ==
    [][phase = "unmounted" =>
          /\ lastEvent'.kind # "fetch"
          /\ UNCHANGED <<donations, error, loading>>]_vars

(* C3: while the polling effect is active the fetcher is invoked on        *)
(* activation and on every tick whatever earlier fetches did; the next     *)
(* tick is always REFRESH_MS after the last one, with no back-off; and     *)
(* after a failure a further fetch is eventually issued (or the effect is  *)
(* cleaned up).                                                            *)
C3_PollingNeverHalts ==
    /\ [](phase = "active" => untilTick \in 0..REFRESH_MS)
    /\ [][phase = "rendered" /\ phase' = "active" =>
             FetchIssued /\ untilTick' = REFRESH_MS]_vars
    /\ [][phase = "active" /\ untilTick = 0 /\ untilTick' # untilTick =>
             FetchIssued /\ untilTick' = REFRESH_MS /\ lastEvent'.kind = "fetch"]_vars
    /\ (lastEvent.kind = "failure") ~> (lastEvent.kind = "fetch" \/ phase # "active")

\* a tick has issued a fetch while an error is shown and an earlier fetch
\* is still outstanding
C3_Witness ==
    /\ phase = "active"
    /\ lastEvent.kind = "fetch"
    /\ error = ErrorText
    /\ Len(inflight) = 2
    /\ untilTick = REFRESH_MS

(* C4: the rendered sequence is the current list rearranged, descending    *)
(* by amount, records of equal amount in their input order; the stored     *)
(* list is the received one, not reordered.                                *)
C4_StableDescendingPermutation ==
    /\ IsStableDescPerm(view.sorted, donations)
    /\ lastEvent.kind = "success" => donations = lastEvent.body.donations

\* three records out of order, two of them tied
C4_Witness ==
    /\ Len(donations) = 3
    /\ donations[1].amount < donations[2].amount
    /\ donations[1].amount = donations[3].amount
    /\ donations[1].name # donations[3].name
    /\ view.sorted = <<donations[2], donations[1], donations[3]>>

(* C5, as stated: in demo mode no request is ever issued, no error is ever *)
(* set, and the displayed list is DEMO sorted descending with Ahmad Fauzi  *)
(* first and Siti Rahayu second.                                           *)
C5_DemoAsClaimed ==
    isDemo =>
        /\ inflight = <<>>
        /\ error = NoError
        /\ phase # "rendered" =>
              /\ IsStableDescPerm(view.sorted, DEMO)
              /\ view.sorted[1] = Donation("Ahmad Fauzi", 1000000)
              /\ view.sorted[2] = Donation("Siti Rahayu", 500000)

(* C5, amended: in demo mode no request is ever issued, no error is ever   *)
(* set, and the displayed list is DEMO sorted descending: Ahmad Fauzi      *)
(* (1,000,000) first, Dewi Lestari (750,000) second, Siti Rahayu (500,000) *)
(* third.                                                                  *)
C5_DemoSorted ==
    isDemo =>
        /\ inflight = <<>>
        /\ error = NoError
        /\ phase # "rendered" =>
              /\ donations = DEMO
              /\ IsStableDescPerm(view.sorted, DEMO)
              /\ view.sorted[1] = Donation("Ahmad Fauzi", 1000000)
              /\ view.sorted[2] = Donation("Dewi Lestari", 750000)
              /\ view.sorted[3] = Donation("Siti Rahayu", 500000)

\* demo mode after a fetch cycle, the polling effect still active
C5_Witness ==
    /\ isDemo
    /\ phase = "active"
    /\ lastEvent.kind = "fetch"
    /\ ~loading
    /\ Len(view.sorted) = 5
    /\ view.total = 2650000

(* C6: the percentage is an integer in 0..100; it is the integer nearest   *)
(* to total / goal * 100 capped at 100, total being the exact sum of the   *)
(* amounts whatever their order; it is 100 once the total reaches the      *)
(* goal and 0 for the empty list.                                          *)
C6_PercentageClamped ==
    /\ view.pct \in 0..100
    /\ view.total = SumUpTo(donations, Len(donations))
    /\ view.total >= DONATION_GOAL => view.pct = 100
    /\ view.total < DONATION_GOAL =>
          2 * Abs(view.pct * DONATION_GOAL - 100 * view.total) <= DONATION_GOAL
    /\ donations = <<>> => view.pct = 0

\* the total is beyond the goal (20,000,000 or more) and the bar shows 100
C6_Witness ==
    /\ view.total >= 20000000
    /\ view.pct = 100
    /\ Len(donations) = 3

(* C7: within one run toward a fixed target the frames write 0 at p = 0,   *)
(* never less than the frame before, between 0 and the target, 937,500     *)
(* half-way to 1,000,000, and exactly the target at the first frame with   *)
(* p = 1, after which no frame is pending and the value stays.             *)
C7_CountUpWithinRun ==
    /\ [](lastFrame.run = run /\ run > 0 =>
            /\ value \in 0..amount
            /\ lastFrame.age = 0 => value = 0
            /\ (2 * lastFrame.age = duration /\ amount = 1000000) => value = 937500
            /\ lastFrame.age >= duration => value = amount /\ pending = {})
    /\ [][lastFrame'.run = lastFrame.run /\ lastFrame' # lastFrame =>
             /\ value' >= value
             /\ lastFrame'.age > lastFrame.age]_vars
    /\ [][lastFrame.run = run /\ lastFrame.age >= duration /\ run' = run =>
             value' = value]_vars

\* a run toward 1,000,000 has reached its first frame with p = 1 late, after
\* the duration had passed
C7_Witness ==
    /\ amount = 1000000
    /\ lastFrame.run = run
    /\ lastFrame.age > duration
    /\ value = 1000000
    /\ pending = {}

(* C8: with two fetches outstanding either may resolve first; every        *)
(* successful resolution replaces the list by the whole list of that one   *)
(* response, nothing else changes the list, and sorted order, count and    *)
(* total are always those of the list held.                                *)
C8_WholesaleLastApplied ==
    /\ [](/\ IsStableDescPerm(view.sorted, donations)
          /\ view.total = SumUpTo(donations, Len(donations))
          /\ ~isDemo => donations \in {<<>>} \cup {DonationsOf(b) : b \in Bodies})
    /\ [][SuccessStep => donations' = DonationsOf(lastEvent'.body)]_vars
    /\ [][~SuccessStep /\ ~isDemo => donations' = donations]_vars

\* the list shown is that of a request that resolved after a request
\* issued later than it
C8_Witness ==
    /\ lastEvent.kind = "success"
    /\ lastEvent.overtaken
    /\ donations = ListB
    /\ view.sorted = ListB
    /\ inflight = <<>>

(* C9: a target change or an unmount cancels the frame pending from the    *)
(* run before, so at most one frame callback is pending, it belongs to     *)
(* the current run of a mounted animator, only the current run writes the  *)
(* value, and a new run starts with elapsed time 0 toward the new target,  *)
(* its frames owing nothing to the value reached before.                   *)
C9_SingleFrameOfCurrentRun ==
    /\ [](/\ Cardinality(pending) <= 1
          /\ \A cb \in pending : animOn /\ cb.run = run /\ cb.target = amount
          /\ lastFrame.run = run /\ run > 0 =>
                value = EasedValue(amount, lastFrame.age))
    /\ [][lastFrame' # lastFrame => lastFrame'.run = run /\ animOn]_vars
    /\ [][run' # run => \A cb \in pending' : cb.age = 0 /\ cb.ready]_vars

\* the target has changed in the middle of the first run: the second run's
\* first frame is the only one pending, the value still that of the first
C9_Witness ==
    /\ run = 2
    /\ lastFrame.run = 1
    /\ lastFrame.age \in 1..(duration - 1)
    /\ value > 0
    /\ \E cb \in pending : pending = {cb} /\ cb.run = 2 /\ cb.age = 0

(* C10: a body that parses to an object is applied as a success whatever   *)
(* its success flag: the list becomes its donations field, or the empty    *)
(* list when the field is missing, and the error is cleared.               *)
C10_SuccessFlagIgnored ==
    [][Settled /\ lastEvent'.body.kind = "object" =>
          /\ lastEvent'.kind = "success"
          /\ donations' = DonationsOf(lastEvent'.body)
          /\ error' = NoError
          /\ loading' = FALSE]_vars

\* a body with success = false and no donations has been applied: the list
\* is empty and no error is shown
C10_Witness ==
    /\ lastEvent.kind = "success"
    /\ lastEvent.body.kind = "object"
    /\ ~lastEvent.body.success
    /\ ~lastEvent.body.hasDonations
    /\ donations = <<>>
    /\ error = NoError

====
